---- MODULE Spec2Model ----
(***************************************************************************)
(* WavyImage: two standalone scripts, fase_waves.py and                    *)
(* wave_img_generator.py, that build an A4 canvas, fill a gradient, draw   *)
(* sine waves, blur and save a PNG under ./figures.                        *)
(*                                                                         *)
(* Spec      one process at a time runs one of the two scripts against a   *)
(*           shared file system, wall clock and random generator.          *)
(* SpecSave  direct calls of save_image / save_grid_as_png, with a random   *)
(*           generator that never repeats and SHA-1 prefixes that never    *)
(*           collide.                                                      *)
(* SpecBlur  apply_lens_blur on a small canvas, pixel by pixel.            *)
(*                                                                         *)
(* An image buffer is modelled as the term that produced it (size, fill,   *)
(* the list of drawn lines, the blur applied): every library primitive is  *)
(* a deterministic function of its arguments, so equal terms are equal     *)
(* pixel arrays.  Arithmetic is exact rational arithmetic on integers;     *)
(* float32/float64 rounding is not modelled except where noted.            *)
(***************************************************************************)
EXTENDS Integers, Sequences, FiniteSets, TLC

\* ------------------------------------------------------------------ bounds
MaxInvocations == 2     \* script runs per behaviour
MaxTick == 2            \* the clock is observed for ticks 0..MaxTick
MaxRand == 1            \* random.random() yields one of the values 0..MaxRand
MaxDigest == 1          \* SHA-1 prefixes that occur: 0..MaxDigest
MaxSaves == 2           \* direct save calls per behaviour (SpecSave)
MaxSide == 3            \* apply_lens_blur on canvases of 2..MaxSide pixels a side (SpecBlur)
MaxLevels == 4          \* levels in 1..MaxLevels (SpecBlur)

\* ------------------------------------------------------------- the state
VARIABLES
    script,     \* the script the running process executes ("none": no process)
    pc,         \* the stage the process executes next
    i,          \* index of the next wave of the loop over np.arange(0, 1, steps)
    canvas,     \* the image buffer (`canvas` in fase_waves, `grid` in wave_img_generator)
    loc,        \* cell_h, cell_w returned by create_a4_grid_array
    fs,         \* the script directory: whether ./figures exists, and the files in it
    clock,      \* the wall clock, in ticks
    rng,        \* the value the next random.random() returns
    sha1,       \* the SHA-1 prefixes computed so far: input -> leading 24 bits
    saves,      \* history: every call of a save function, in order
    step,       \* history: number of stage steps of the running process
    stamp,      \* history: the step at which each stage last ran (0: never)
    count,      \* history: how often each stage ran in the running process
    firstWave,  \* history: the step of the first wave drawn (0: none)
    blurOut,    \* history: the buffer the blur stage returned
    written,    \* history: files written by the running process
    inv,        \* history: processes started
    lb          \* the frame of one apply_lens_blur call (SpecBlur)

pipeVars == <<script, pc, i, canvas, loc, step, stamp, count, firstWave, blurOut,
              written, inv>>

envVars == <<fs, clock, rng, sha1, saves>>

vars == <<script, pc, i, canvas, loc, fs, clock, rng, sha1, saves, step, stamp, count,
          firstWave, blurOut, written, inv, lb>>

\* ------------------------------------------------------ small arithmetic
Abs(n) == IF n < 0 THEN -n ELSE n

Min(a, b) == IF a <= b THEN a ELSE b

\* Python's int() on the quotient n/d (d > 0): truncation toward zero.
PyInt(n, d) == IF n >= 0 THEN n \div d ELSE -((-n) \div d)

\* ceil(n/d) for n >= 0, d > 0
CeilDiv(n, d) == (n + d - 1) \div d

Scripts == {"fase_waves", "wave_img_generator"}

\* -------------------------------------------------------- canvas creation
\* int(mm / 25.4 * dpi)
A4Pixels(mm, dpi) == PyInt(mm * dpi * 10, 254)

\* fase_waves.create_canvas
create_canvas(dpi) ==
    [width |-> A4Pixels(210, dpi), height |-> A4Pixels(297, dpi),
     fill |-> "white", waves |-> << >>, blur |-> "none"]

\* wave_img_generator.create_a4_grid_array: (grid, cell_h, cell_w)
create_a4_grid_array(rows, cols, dpi) ==
    LET grid == [width |-> A4Pixels(210, dpi), height |-> A4Pixels(297, dpi),
                 fill |-> "white", waves |-> << >>, blur |-> "none"]
    IN [grid |-> grid, cell_h |-> grid.height \div rows, cell_w |-> grid.width \div cols]

\* fill_gradient of either script: every pixel is overwritten.
fill_gradient(image, gradient) ==
    [image EXCEPT !.fill = gradient, !.waves = << >>, !.blur = "none"]

\* ------------------------------------------------------------- the waves
\* steps = 0.0025 (step=0.0025 in fase_waves): the rational num/den; the double nearest
\* to 0.0025 is 0.0025000000000000000520..., above the exact value.
steps == [num |-> 25, den |-> 10000, above |-> TRUE]

\* Python's a // s for an integer a >= 0 and the float literal s: the floor of the
\* exact quotient of the doubles, so one less than a/s when a/s is an integer and the
\* double s lies above the literal's exact value.
PyFloorDiv(a, s) ==
    LET n == a * s.den
    IN IF n % s.num = 0 /\ s.above /\ n > 0 THEN (n \div s.num) - 1 ELSE n \div s.num

\* len(np.arange(0, 1, steps)) = ceil((1 - 0) / steps)
NumWaves == CeilDiv(1 * steps.den, steps.num)

\* The k-th wave of the loop `for i in np.arange(0, 1, steps)`, i = k * steps:
\* x_offset = i, y_pos = i * 0.75 + 0.1, color = cmap(i), amplitude 0.15,
\* frequency 3.5, thickness 40.  x_offset and color in units of 1/steps.den, y_pos in
\* units of 1/(100 * steps.den).
WaveParams(k) ==
    [x_offset |-> k * steps.num,
     y_pos |-> k * steps.num * 75 + 10 * steps.den,
     color |-> k * steps.num]

\* A wave whose phase comes from the random generator (random_wave_parameters).
draw_sine_wave_random(grid, k) ==
    [grid EXCEPT !.waves = Append(@, [WaveParams(k) EXCEPT !.x_offset = @ + rng])]

\* draw_sine_wave / one iteration of draw_all_waves: one more line on the image.
draw_sine_wave(grid, k) == [grid EXCEPT !.waves = Append(@, WaveParams(k))]

\* ------------------------------------------------------------- the blurs
\* fase_waves.apply_blur_by_depth(canvas, focal_y, max_blur_radius); focal_y in 1/100
apply_blur_by_depth(image, focal_y, max_blur_radius) ==
    [image EXCEPT !.blur = [kind |-> "depth", focal_y |-> focal_y,
                             max_radius |-> max_blur_radius]]

\* int(focus_col * cell_w + cell_w / 2), and the same for rows
FocusCoord(focus_cell, cell_size) == PyInt(2 * focus_cell * cell_size + cell_size, 2)

\* blur_strength without the np.clip: (distance * falloff) ** 2
BlurStrengthUnclipped(dx, dy, falloff, elliptical, aspect) ==
    LET a == IF elliptical THEN aspect ELSE [num |-> 1, den |-> 1]
        ady == Abs(dy) * a.num
    IN [num |-> (dx * dx * a.den * a.den + ady * ady) * falloff.num * falloff.num,
        den |-> a.den * a.den * falloff.den * falloff.den]

\* blur_strength = clip(distance * falloff, 0, 1) ** 2 of the pixel at offset (dx, dy)
\* from the focal centre, as the rational num/den; falloff and aspect are rationals.
\* distance = sqrt(dx^2 + (dy * aspect)^2), dy scaled only when elliptical.
BlurStrength(dx, dy, falloff, elliptical, aspect) ==
    LET a == IF elliptical THEN aspect ELSE [num |-> 1, den |-> 1]
        ady == Abs(dy) * a.num
    IN IF falloff.num <= 0
       THEN [num |-> 0, den |-> 1]      \* distance * falloff <= 0 is clipped to 0
       ELSE IF Abs(dx) * falloff.num >= falloff.den
               \/ ady * falloff.num >= a.den * falloff.den
            THEN [num |-> 1, den |-> 1] \* one component alone reaches 1: clipped to 1
            ELSE LET n == (dx * dx * a.den * a.den + ady * ady)
                            * falloff.num * falloff.num
                     d == a.den * a.den * falloff.den * falloff.den
                 IN [num |-> Min(n, d), den |-> d]

\* blur_indices = (blur_strength * (levels - 1)).astype(int)
BlurIndex(dx, dy, falloff, elliptical, aspect, levels) ==
    LET s == BlurStrength(dx, dy, falloff, elliptical, aspect)
    IN PyInt(s.num * (levels - 1), s.den)

\* The canvas coordinate nearest to c
Clamp(c, size) == IF c < 0 THEN 0 ELSE IF c > size - 1 THEN size - 1 ELSE c

\* apply_lens_blur on the image term: the focal centre and the blur parameters; `sharpest`
\* is the blur index of the canvas pixel nearest to the focal centre, the smallest
\* index of the image (BlurIndex grows with |dx| and with |dy|).
apply_lens_blur(grid, focus_row, focus_col, cell_h, cell_w, max_radius, falloff, levels, elliptical, aspect) ==
    LET focus_x == FocusCoord(focus_col, cell_w)
        focus_y == FocusCoord(focus_row, cell_h)
    IN [grid EXCEPT !.blur =
          [kind |-> "lens", focus_row |-> focus_row, focus_col |-> focus_col,
           focus_x |-> focus_x, focus_y |-> focus_y,
           max_radius |-> max_radius, falloff |-> falloff, levels |-> levels,
           elliptical |-> elliptical, aspect |-> aspect,
           sharpest |-> BlurIndex(Clamp(focus_x, grid.width) - focus_x,
                                  Clamp(focus_y, grid.height) - focus_y,
                                  falloff, elliptical, aspect, levels)]]

\* ------------------------------------------------------------ file names
HexChars == <<"0", "1", "2", "3", "4", "5", "6", "7",
              "8", "9", "a", "b", "c", "d", "e", "f">>

DecChars == <<"0", "1", "2", "3", "4", "5", "6", "7", "8", "9">>

RECURSIVE Pow(_, _)
Pow(b, e) == IF e = 0 THEN 1 ELSE b * Pow(b, e - 1)

\* n as `width` digits in `base`, zero padded (n < base^width)
Digits(n, width, base, chars) ==
    [j \in 1..width |-> chars[((n \div Pow(base, width - j)) % base) + 1]]

\* The clock counts ticks since midnight of Today; datetime.now() is the instant.
TicksPerSecond == 2

Today == [year |-> 2026, month |-> 11, day |-> 6]

Now(t) ==
    LET s == t \div TicksPerSecond
    IN [year |-> Today.year, month |-> Today.month, day |-> Today.day,
        hour |-> (s \div 3600) % 24, minute |-> (s \div 60) % 60, second |-> s % 60,
        tick |-> t % TicksPerSecond]

\* now.strftime("%Y%m%d_%H%M%S"): 15 characters, the sub-second part is dropped
Strftime(now) ==
    Digits(now.year, 4, 10, DecChars) \o Digits(now.month, 2, 10, DecChars)
      \o Digits(now.day, 2, 10, DecChars) \o <<"_">>
      \o Digits(now.hour, 2, 10, DecChars) \o Digits(now.minute, 2, 10, DecChars)
      \o Digits(now.second, 2, 10, DecChars)

\* hexdigest()[:6] of a digest whose leading 24 bits are d
HexPrefix(d) == Digits(d, 6, 16, HexChars)

PngSuffix == <<".", "p", "n", "g">>

\* The hashed name without its extension.
HashedNameNoSuffix(prefix, unique_id) == prefix \o <<"_">> \o unique_id

\* f"{prefix}_{unique_id}.png"
HashedName(prefix, unique_id) == prefix \o <<"_">> \o unique_id \o PngSuffix

\* f"{filename_prefix}_{timestamp}.png"
TimestampName(prefix, timestamp) == prefix \o <<"_">> \o timestamp \o PngSuffix

\* prefix="sine_wave_bokeh" (fase_waves), filename_prefix="a4_sine_wave"
Prefix(s) ==
    IF s = "fase_waves"
    THEN <<"s", "i", "n", "e", "_", "w", "a", "v", "e", "_", "b", "o", "k", "e", "h">>
    ELSE <<"a", "4", "_", "s", "i", "n", "e", "_", "w", "a", "v", "e">>

Stages == {"canvas", "gradient", "waves", "blur", "save"}

RandVals == 0..MaxRand

Digests == 0..MaxDigest

NoImage == [width |-> 0, height |-> 0, fill |-> "none", waves |-> << >>, blur |-> "none"]

NoFrame == [bpc |-> "none"]

InitEnv ==
    /\ fs \in {[figures |-> d, files |-> << >>] : d \in {"absent", "dir"}}
    /\ clock = 0
    /\ rng \in RandVals
    /\ sha1 = << >>
    /\ saves = << >>

InitPipe ==
    /\ script = "none"
    /\ pc = "idle"
    /\ i = 0
    /\ canvas = NoImage
    /\ loc = [cell_h |-> 0, cell_w |-> 0]
    /\ step = 0
    /\ stamp = [s \in Stages |-> 0]
    /\ count = [s \in Stages |-> 0]
    /\ firstWave = 0
    /\ blurOut = NoImage
    /\ written = 0
    /\ inv = 0

Init == InitEnv /\ InitPipe /\ lb = NoFrame

\* ------------------------------------------------------ the save functions
\* Image.save(path): the file `name` of ./figures now holds `image`.
WriteFile(files, name, image) ==
    [n \in (DOMAIN files) \cup {name} |-> IF n = name THEN image ELSE files[n]]

\* hashlib.sha1(f"{random.random()}_{timestamp}".encode()).hexdigest()[:6]: SHA-1 is a
\* fixed function whose values are not computed here; an input met before gets the
\* digest it got, a new input gets any digest.  random.random() is consumed.
HashId(timestamp, d) ==
    LET input == <<rng, timestamp>>
    IN /\ input \in DOMAIN sha1 => d = sha1[input]
       /\ sha1' = (input :> d) @@ sha1
       /\ rng' \in RandVals

\* fase_waves.save_image(canvas, prefix, directory="figures")
save_image(image, prefix, who) ==
    LET timestamp == Strftime(Now(clock))
    IN \E d \in Digests :
        /\ HashId(timestamp, d)
        /\ LET filename == HashedName(prefix, HexPrefix(d))
           IN /\ fs' = [figures |-> "dir",      \* path.parent.mkdir(exist_ok=True)
                        files |-> WriteFile(fs.files, filename, image)]
              /\ saves' = Append(saves, [by |-> who, fn |-> "save_image",
                                         prefix |-> prefix, use_hash |-> TRUE,
                                         random |-> rng,
                                         timestamp |-> timestamp, name |-> filename,
                                         image |-> image, ok |-> TRUE])

\* wave_img_generator.save_grid_as_png(grid, filename_prefix, directory, use_hash):
\* img.save(path) raises FileNotFoundError when ./figures does not exist.
save_grid_as_png(image, prefix, use_hash, who) ==
    LET timestamp == Strftime(Now(clock))
    IN \E d \in Digests :
        /\ IF use_hash THEN HashId(timestamp, d)
                       ELSE d = 0 /\ UNCHANGED <<sha1, rng>>
        /\ LET filename == IF use_hash THEN HashedName(prefix, HexPrefix(d))
                                       ELSE TimestampName(prefix, timestamp)
               ok == fs.figures = "dir"
           IN /\ fs' = IF ok THEN [fs EXCEPT !.files = WriteFile(@, filename, image)]
                             ELSE fs
              /\ saves' = Append(saves, [by |-> who, fn |-> "save_grid_as_png",
                                         prefix |-> prefix, use_hash |-> use_hash,
                                         random |-> IF use_hash THEN rng ELSE -1,
                                         timestamp |-> timestamp, name |-> filename,
                                         image |-> image, ok |-> ok])

\* Time passes.
Tick ==
    /\ clock < MaxTick
    /\ clock' = clock + 1
    /\ UNCHANGED <<fs, rng, sha1, saves, lb>>
    /\ UNCHANGED pipeVars

\* ------------------------------------------------------------ the scripts
\* create_a4_grid_array(rows=20, cols=10, dpi=200)
GridRows == 20

GridCols == 10

\* The statement order with the blur moved before the wave loop.
NextStageBlurFirst(stage) ==
    CASE stage = "canvas" -> "gradient"
      [] stage = "gradient" -> "blur"
      [] stage = "blur" -> "waves"
      [] stage = "waves" -> "save"
      [] stage = "save" -> "done"

\* The statement order of either __main__ block: the stage after `stage`.
NextStage(stage) ==
    CASE stage = "canvas" -> "gradient"
      [] stage = "gradient" -> "waves"
      [] stage = "waves" -> "blur"
      [] stage = "blur" -> "save"
      [] stage = "save" -> "done"

\* History of a stage step.
Record(stage) ==
    /\ step' = step + 1
    /\ stamp' = [stamp EXCEPT ![stage] = step + 1]
    /\ count' = [count EXCEPT ![stage] = @ + 1]

\* `python fase_waves.py` or `python wave_img_generator.py`: a new process; the
\* random module seeds its generator from the operating system.
Start(s) ==
    /\ pc = "idle"
    /\ inv < MaxInvocations
    /\ inv' = inv + 1
    /\ script' = s
    /\ pc' = "canvas"
    /\ i' = 0
    /\ canvas' = NoImage
    /\ loc' = [cell_h |-> 0, cell_w |-> 0]
    /\ step' = 0
    /\ stamp' = [st \in Stages |-> 0]
    /\ count' = [st \in Stages |-> 0]
    /\ firstWave' = 0
    /\ blurOut' = NoImage
    /\ written' = 0
    /\ rng' \in RandVals
    /\ UNCHANGED <<fs, clock, sha1, saves, lb>>

\* canvas = create_canvas(dpi=600)
\* grid, cell_h, cell_w = create_a4_grid_array(rows=20, cols=10, dpi=200)
CreateCanvas ==
    /\ pc = "canvas"
    /\ IF script = "fase_waves"
       THEN canvas' = create_canvas(600) /\ UNCHANGED loc
       ELSE LET r == create_a4_grid_array(GridRows, GridCols, 200)
            IN canvas' = r.grid /\ loc' = [cell_h |-> r.cell_h, cell_w |-> r.cell_w]
    /\ Record("canvas")
    /\ pc' = NextStage("canvas")
    /\ UNCHANGED <<script, i, firstWave, blurOut, written, inv, lb>>
    /\ UNCHANGED envVars

\* canvas = fill_gradient(canvas, start_color=(20, 20, 20), end_color=(255, 255, 195))
\* grid = fill_gradient(grid, 'gray')
FillGradient ==
    /\ pc = "gradient"
    /\ canvas' = fill_gradient(canvas, IF script = "fase_waves" THEN "dark_to_cream"
                                                                ELSE "gray")
    /\ Record("gradient")
    /\ pc' = NextStage("gradient")
    /\ UNCHANGED <<script, i, loc, firstWave, blurOut, written, inv, lb>>
    /\ UNCHANGED envVars

\* One iteration of the loop over np.arange(0, 1, steps), in draw_all_waves or in
\* wave_img_generator's __main__; the stage ends with the last wave.
DrawWave ==
    /\ pc = "waves"
    /\ i < NumWaves
    /\ canvas' = draw_sine_wave(canvas, i)
    /\ i' = i + 1
    /\ Record("waves")
    /\ firstWave' = IF firstWave = 0 THEN step + 1 ELSE firstWave
    /\ pc' = IF i + 1 = NumWaves THEN NextStage("waves") ELSE "waves"
    /\ UNCHANGED <<script, loc, blurOut, written, inv, lb>>
    /\ UNCHANGED envVars

\* canvas = apply_blur_by_depth(canvas, focal_y=0.85, max_blur_radius=36)
\* rows = stop // steps
\* grid = apply_lens_blur(grid, focus_row=int(rows*0.8), focus_col=5, cell_h, cell_w,
\*     max_radius=10, falloff=0.0015, levels=7, elliptical=True, aspect_ratio=1.3)
Blur ==
    /\ pc = "blur"
    /\ LET rows == PyFloorDiv(1, steps)
           out == IF script = "fase_waves"
                  THEN apply_blur_by_depth(canvas, 85, 36)
                  ELSE apply_lens_blur(canvas, PyInt(rows * 8, 10), 5, loc.cell_h,
                                       loc.cell_w, 10, [num |-> 15, den |-> 10000], 7,
                                       TRUE, [num |-> 13, den |-> 10])
       IN canvas' = out /\ blurOut' = out
    /\ Record("blur")
    /\ pc' = NextStage("blur")
    /\ UNCHANGED <<script, i, loc, firstWave, written, inv, lb>>
    /\ UNCHANGED envVars

\* save_image(canvas, prefix="sine_wave_bokeh")
\* save_grid_as_png(grid, filename_prefix="a4_sine_wave", directory='figures', use_hash=True)
\* An exception of the save call ends the process with a traceback.
Save ==
    /\ pc = "save"
    /\ IF script = "fase_waves"
       THEN save_image(canvas, Prefix(script), script)
       ELSE save_grid_as_png(canvas, Prefix(script), TRUE, script)
    /\ Record("save")
    /\ written' = IF saves'[Len(saves')].ok THEN written + 1 ELSE written
    /\ pc' = IF saves'[Len(saves')].ok THEN NextStage("save") ELSE "crashed"
    /\ UNCHANGED <<script, i, canvas, loc, firstWave, blurOut, inv, clock, lb>>

\* The process is gone; the files stay.
Exit ==
    /\ pc \in {"done", "crashed"}
    /\ inv < MaxInvocations
    /\ pc' = "idle"
    /\ UNCHANGED <<script, i, canvas, loc, step, stamp, count, firstWave, blurOut,
                   written, inv, lb>>
    /\ UNCHANGED envVars

Next ==
    \/ \E s \in Scripts : Start(s)
    \/ CreateCanvas
    \/ FillGradient
    \/ DrawWave
    \/ Blur
    \/ Save
    \/ Exit
    \/ Tick

Spec == Init /\ [][Next]_vars

\* ------------------------------------------------- direct calls of the saves
SomeImages ==
    {fill_gradient(create_canvas(600), "dark_to_cream"),
     fill_gradient(create_a4_grid_array(GridRows, GridCols, 200).grid, "gray")}

CallSaveImage(image, prefix) ==
    /\ Len(saves) < MaxSaves
    /\ save_image(image, prefix, "caller")
    /\ UNCHANGED <<clock, lb>>
    /\ UNCHANGED pipeVars

CallSaveGrid(image, prefix, use_hash) ==
    /\ Len(saves) < MaxSaves
    /\ save_grid_as_png(image, prefix, use_hash, "caller")
    /\ UNCHANGED <<clock, lb>>
    /\ UNCHANGED pipeVars

\* The most favourable behaviour of random.random() and SHA-1 for distinct names: the
\* value random.random() returned was never returned to an earlier save, and the SHA-1
\* prefixes of different inputs differ.
IdealHash ==
    /\ \A j, k \in 1..Len(saves') :
          (j < k /\ saves'[k].use_hash) => saves'[j].random # saves'[k].random
    /\ \A a, b \in DOMAIN sha1' : a # b => sha1'[a] # sha1'[b]

NextSave ==
    \/ \E image \in SomeImages, s \in Scripts :
          CallSaveImage(image, Prefix(s)) /\ IdealHash
    \/ \E image \in SomeImages, s \in Scripts, use_hash \in BOOLEAN :
          CallSaveGrid(image, Prefix(s), use_hash) /\ IdealHash
    \/ Tick

\* Any sequence of save calls, with the random generator and SHA-1 behaving ideally.
SpecSave == Init /\ [][NextSave]_vars

\* ------------------------------------------- apply_lens_blur, pixel by pixel
Falloffs ==
    {[num |-> -1, den |-> 2], [num |-> 0, den |-> 1], [num |-> 1, den |-> 4],
     [num |-> 1, den |-> 3], [num |-> 1, den |-> 2], [num |-> 2, den |-> 1]}

Aspects == {[num |-> 3, den |-> 2], [num |-> 1, den |-> 2]}

Pixels(frame) == (0..(frame.width - 1)) \X (0..(frame.height - 1))

\* The arguments of a call: a width x height image, a focal cell, the defaults varied.
LensCalls ==
    {[bpc |-> "entry", width |-> w, height |-> h, focus_row |-> fr, focus_col |-> fc,
      cell_h |-> ch, cell_w |-> cw, max_radius |-> 15, falloff |-> f, levels |-> l,
      elliptical |-> e, aspect |-> a] :
        w \in 2..MaxSide, h \in 2..MaxSide, fr \in -1..MaxSide, fc \in 0..1,
        ch \in 1..2, cw \in {2}, f \in Falloffs, l \in 1..MaxLevels, e \in BOOLEAN,
        a \in Aspects}

InitBlur ==
    /\ fs = [figures |-> "dir", files |-> << >>]
    /\ clock = 0
    /\ rng = 0
    /\ sha1 = << >>
    /\ saves = << >>
    /\ InitPipe
    /\ lb \in LensCalls

\* Lines 122-141: the focal centre, the distance map, blur_strength.
LensDistance ==
    /\ lb.bpc = "entry"
    /\ lb' = [bpc |-> "layers",
              focus_x |-> FocusCoord(lb.focus_col, lb.cell_w),
              focus_y |-> FocusCoord(lb.focus_row, lb.cell_h)] @@ lb
    /\ UNCHANGED envVars
    /\ UNCHANGED pipeVars

\* Lines 144-151: the pre-blurred layers, radius max_radius * (i / (levels - 1)),
\* which divides by zero for levels = 1; then blended = zeros, and blur_indices.
LensLayers ==
    /\ lb.bpc = "layers"
    /\ IF lb.levels = 1
       THEN lb' = [lb EXCEPT !.bpc = "ZeroDivisionError"]
       ELSE lb' = [bpc |-> "blend",
                   layers |-> [l \in 0..(lb.levels - 1) |->
                                 [num |-> lb.max_radius * l, den |-> lb.levels - 1]],
                   blur_indices |-> [p \in Pixels(lb) |->
                                 BlurIndex(p[1] - lb.focus_x, p[2] - lb.focus_y,
                                           lb.falloff, lb.elliptical, lb.aspect,
                                           lb.levels)],
                   blended |-> [p \in Pixels(lb) |-> [layer |-> -1, writes |-> 0]],
                   lvl |-> 0] @@ lb
    /\ UNCHANGED envVars
    /\ UNCHANGED pipeVars

\* Lines 153-156: one iteration of `for i in range(levels)`: the pixels whose index is
\* i are copied from layer i.
LensBlend ==
    /\ lb.bpc = "blend"
    /\ lb.lvl < lb.levels
    /\ lb' = [lb EXCEPT
                !.blended = [p \in Pixels(lb) |->
                               IF lb.blur_indices[p] = lb.lvl
                               THEN [layer |-> lb.lvl, writes |-> @[p].writes + 1]
                               ELSE @[p]],
                !.lvl = @ + 1]
    /\ UNCHANGED envVars
    /\ UNCHANGED pipeVars

\* Lines 158-160
LensReturn ==
    /\ lb.bpc = "blend"
    /\ lb.lvl = lb.levels
    /\ lb' = [lb EXCEPT !.bpc = "returned"]
    /\ UNCHANGED envVars
    /\ UNCHANGED pipeVars

NextBlur ==
    \/ LensDistance
    \/ LensLayers
    \/ LensBlend
    \/ LensReturn

SpecBlur == InitBlur /\ [][NextBlur]_vars

\* ================================================================ claims
IsPrefixAt(sub, seq, k) ==
    /\ k + Len(sub) - 1 <= Len(seq)
    /\ SubSeq(seq, k, k + Len(sub) - 1) = sub

Contains(seq, sub) == \E k \in 1..Len(seq) : IsPrefixAt(sub, seq, k)

EndsWith(seq, sub) ==
    Len(sub) <= Len(seq) /\ IsPrefixAt(sub, seq, Len(seq) - Len(sub) + 1)

HexSet == {HexChars[k] : k \in 1..16}

\* C1: in a run of either script the stages run in the order canvas, gradient, waves,
\* blur, save: each stage runs after the one before it has ended, canvas, gradient,
\* blur and save run at most once and exactly once in a run that has ended, every wave
\* is drawn before the blur, and save is the last step and is handed the buffer the
\* blur returned.
C1_StageOrder ==
    /\ \A s \in {"canvas", "gradient", "blur", "save"} : count[s] <= 1
    /\ stamp["gradient"] # 0 => 0 < stamp["canvas"] /\ stamp["canvas"] < stamp["gradient"]
    /\ firstWave # 0 => 0 < stamp["gradient"] /\ stamp["gradient"] < firstWave
    /\ stamp["blur"] # 0 =>
          /\ count["waves"] = NumWaves
          /\ 0 < firstWave /\ stamp["waves"] < stamp["blur"]
    /\ stamp["save"] # 0 =>
          /\ 0 < stamp["blur"] /\ stamp["blur"] < stamp["save"]
          /\ stamp["save"] = step
          /\ saves[Len(saves)].image = blurOut
    /\ pc \in {"done", "crashed"} =>
          \A s \in {"canvas", "gradient", "blur", "save"} : count[s] = 1

C1_Witness ==
    /\ pc = "done"
    /\ count["save"] = 1 /\ count["waves"] = NumWaves
    /\ \E j, k \in 1..Len(saves) :
          saves[j].by = "fase_waves" /\ saves[k].by = "wave_img_generator"

\* C2: when a run of either script has ended, it has written exactly one PNG file
\* under ./figures, whether or not ./figures existed before the run.
C2_OneFilePerRun ==
    pc \in {"done", "crashed"} =>
        /\ pc = "done"
        /\ written = 1
        /\ fs.figures = "dir"
        /\ saves[Len(saves)].name \in DOMAIN fs.files

\* C3 as stated: the name of every file a pipeline's save writes contains the save-time
\* timestamp YYYYMMDD_HHMMSS and ends in ".png".
C3_TimestampInName ==
    \A k \in 1..Len(saves) :
        saves[k].ok =>
            /\ Contains(saves[k].name, saves[k].timestamp)
            /\ EndsWith(saves[k].name, PngSuffix)

\* C3 amended: the name of every file a pipeline's save writes is the script's prefix,
\* "_", the first six hex digits of the SHA-1 of the random value and the timestamp,
\* and ".png"; the timestamp itself does not occur in the name.
C3_HashedPngName ==
    \A k \in 1..Len(saves) :
        LET r == saves[k]
            n == Len(Prefix(r.by))
        IN r.ok =>
            /\ EndsWith(r.name, PngSuffix)
            /\ Len(r.name) = n + 1 + 6 + 4
            /\ SubSeq(r.name, 1, n + 1) = Prefix(r.by) \o <<"_">>
            /\ \A j \in (n + 2)..(n + 7) : r.name[j] \in HexSet
            /\ <<r.random, r.timestamp>> \in DOMAIN sha1
            /\ SubSeq(r.name, n + 2, n + 7) = HexPrefix(sha1[<<r.random, r.timestamp>>])
            /\ Len(r.timestamp) = 15
            /\ ~Contains(r.name, r.timestamp)

C3_Witness ==
    \E j, k \in 1..Len(saves) :
        /\ saves[j].ok /\ saves[j].by = "fase_waves"
        /\ saves[k].ok /\ saves[k].by = "wave_img_generator"

\* C4: no two save calls with the same prefix (and directory) that write a file produce
\* the same file name, so no save overwrites the image of an earlier save.
C4_UniqueNames ==
    \A j, k \in 1..Len(saves) :
        (j < k /\ saves[j].ok /\ saves[k].ok /\ saves[j].prefix = saves[k].prefix)
            => saves[j].name # saves[k].name

\* The buffers saved by runs of the same script are equal.
SameImages ==
    \A j, k \in 1..Len(saves) :
        saves[j].by = saves[k].by => saves[j].image = saves[k].image

\* A step of a stage before save leaves the random generator, the SHA-1 computations
\* and the saves alone.
EnvUntouched ==
    pc \in {"canvas", "gradient", "waves", "blur"} =>
        (rng' = rng /\ sha1' = sha1 /\ saves' = saves)

\* C5: any two runs of the same script hand the same pixel buffer to the save stage,
\* whatever the random values and clock readings; and the stages before save leave
\* the random generator and the SHA-1 computations untouched.
C5_SameImage == []SameImages /\ [][EnvUntouched]_vars

C5_Witness ==
    \E j, k \in 1..Len(saves) :
        /\ j < k
        /\ saves[j].ok /\ saves[k].ok
        /\ saves[j].by = saves[k].by
        /\ saves[j].random # saves[k].random
        /\ saves[j].timestamp # saves[k].timestamp

\* The preconditions of C6 on a call of apply_lens_blur.
LensPre ==
    /\ lb.levels >= 2
    /\ lb.falloff.num >= 0
    /\ lb.focus_x \in 0..(lb.width - 1)
    /\ lb.focus_y \in 0..(lb.height - 1)

\* d^2 * aspect.den^2 of pixel p: the squared (elliptical) distance to the focal centre
DistSq(p) ==
    LET an == IF lb.elliptical THEN lb.aspect.num ELSE 1
        ad == IF lb.elliptical THEN lb.aspect.den ELSE 1
        dx == p[1] - lb.focus_x
        dy == p[2] - lb.focus_y
    IN dx * dx * ad * ad + dy * dy * an * an

C7_FocusInGrid ==
    (script = "wave_img_generator" /\ stamp["blur"] # 0) =>
        /\ canvas.blur.focus_row \in 0..(GridRows - 1)
        /\ canvas.blur.focus_col \in 0..(GridCols - 1)
        /\ canvas.blur.focus_x \in 0..(canvas.width - 1)
        /\ canvas.blur.focus_y \in 0..(canvas.height - 1)
        /\ canvas.blur.sharpest # canvas.blur.levels - 1

====
